---- MODULE Spec2Model ----
(***************************************************************************)
(* Parameter resolution and linking engine of Talk-to-Metabase.            *)
(*                                                                         *)
(* Query scope:     tools/enhanced_parameters/core.py                      *)
(* Dashboard scope: tools/enhanced_dashboard_parameters.py                 *)
(* Card tools:      tools/card.py (create_card, update_card)               *)
(*                                                                         *)
(* One call of a tool is modelled from its entry to its return; every      *)
(* await on the Metabase client is a step of its own.  Python values are   *)
(* tagged records (Absent: key missing, None, Str, Bool, List); names and  *)
(* slugs are sequences of one-character strings so that generate_slug can  *)
(* be computed character by character.  Error messages are records that    *)
(* keep the message's rule, 0-based index and parameter name.              *)
(***************************************************************************)
EXTENDS Integers, Sequences, FiniteSets, TLC

VARIABLES
    tool,                  \* the entry point that was called
    parameters,            \* its batch of parameter specs
    arg,                   \* how a card tool received them: none, invalid_json, list
    available,             \* ENHANCED_PARAMETERS_AVAILABLE
    query_given,           \* update_card: a new query text was passed
    pc,                    \* position of the call
    i,                     \* 1-based position of the running loop
    errors,                \* error list of the running stage
    processed_parameters,  \* compiled parameters
    template_tags,         \* binding tags, keyed by name
    existing_ids,          \* dashboard scope: ids taken so far
    generated,             \* ids drawn from the random generator, in order
    waiting,               \* locals of the call suspended at an await, <<>> if none
    data,                  \* get_dashboard_tab: the dashboard the server holds
    tab_id,                \* get_dashboard_tab: its arguments
    page,
    page_size,
    requests,              \* requests sent to the Metabase client, in order
    result,                \* outcome the tool returned
    dashcards,             \* dashcards whose parameter mappings are linked
    card_parameters_by_card, \* card id -> parameters fetched for the card
    processed_dashcards    \* dashcards with ID-based parameter mappings

\* the state of the parameter-mapping functions
linker == <<dashcards, card_parameters_by_card, processed_dashcards>>

tab_call == <<data, tab_id, page, page_size>>

vars == <<tool, parameters, arg, available, query_given, pc, i, errors,
          processed_parameters, template_tags, existing_ids, generated,
          requests, result, waiting, linker, tab_call>>

\* Longest batch of parameter specs a call is given.
MaxParams == 2

(***************************************************************************)
(* Python values                                                           *)
(***************************************************************************)
Absent == [k |-> "absent"]
None == [k |-> "none"]
Str(s) == [k |-> "str", s |-> s]
Bool(b) == [k |-> "bool", b |-> b]
List(l) == [k |-> "list", l |-> l]
Num(n) == [k |-> "num", n |-> n]
Field(d, t, f) == [k |-> "field", database_id |-> d, table_id |-> t, field_id |-> f]

\* "key in dict"
Has(v) == v # Absent
\* dict.get(key) is truthy
Truthy(v) ==
    CASE v.k = "absent" -> FALSE
      [] v.k = "none" -> FALSE
      [] v.k = "str" -> v.s # ""
      [] v.k = "bool" -> v.b
      [] v.k = "list" -> v.l # <<>>
      [] v.k = "num" -> v.n # 0
      [] OTHER -> TRUE

Range(s) == {s[k] : k \in DOMAIN s}

(***************************************************************************)
(* Type tables                                                             *)
(***************************************************************************)
SIMPLE_PARAMETER_TYPES ==
    [t \in {"category", "number/=", "date/single"} |->
        CASE t = "category" -> "text"
          [] t = "number/=" -> "number"
          [] t = "date/single" -> "date"]

FIELD_FILTER_TYPES ==
    {"string/=", "string/!=", "string/contains", "string/does-not-contain",
     "string/starts-with", "string/ends-with",
     "number/!=", "number/between", "number/>=", "number/<=",
     "date/range", "date/relative", "date/all-options", "date/month-year",
     "date/quarter-year"}

UI_WIDGET_MAPPINGS ==
    [w \in {"input", "dropdown", "search"} |->
        CASE w = "input" -> "none"
          [] w = "dropdown" -> "list"
          [] w = "search" -> "search"]

(***************************************************************************)
(* generate_slug                                                           *)
(***************************************************************************)
UpperCase == {"A", "B", "T"}
LowerCase == {"a", "b", "c", "d", "e", "m", "o", "p", "r", "s", "t", "u"}
Digits == {"1", "2"}
WhiteSpace == {" "}

Lower(c) ==
    CASE c = "A" -> "a"
      [] c = "B" -> "b"
      [] c = "T" -> "t"
      [] OTHER -> c

IsAlnum(c) == c \in UpperCase \cup LowerCase \cup Digits

RECURSIVE LStrip(_, _)
LStrip(s, chars) ==
    IF s # <<>> /\ Head(s) \in chars THEN LStrip(Tail(s), chars) ELSE s

RECURSIVE RStrip(_, _)
RStrip(s, chars) ==
    IF s # <<>> /\ s[Len(s)] \in chars
    THEN RStrip(SubSeq(s, 1, Len(s) - 1), chars)
    ELSE s

Strip(s, chars) == RStrip(LStrip(s, chars), chars)

\* re.sub(r'[^a-zA-Z0-9]+', '_', s): every maximal run of non-alphanumerics
\* becomes one underscore.
RECURSIVE SubNonAlnum(_)
SubNonAlnum(s) ==
    IF s = <<>> THEN <<>>
    ELSE IF IsAlnum(Head(s)) THEN <<Head(s)>> \o SubNonAlnum(Tail(s))
    ELSE <<"_">> \o SubNonAlnum(LStrip(s, {c \in Range(s) : ~IsAlnum(c)}))

generate_slug(name) ==
    LET lowered == [k \in DOMAIN name |-> Lower(name[k])]
        slug == Strip(SubNonAlnum(Strip(lowered, WhiteSpace)), {"_"})
    IN IF slug = <<>> THEN <<"p", "a", "r", "a", "m", "e", "t", "e", "r">> ELSE slug

(***************************************************************************)
(* Stage (a), query scope: validate_enhanced_parameters                    *)
(***************************************************************************)
Error(rule, index, name) == [rule |-> rule, index |-> index, name |-> name]

\* Rules of schemas/enhanced_card_parameters.json that the repository's tests
\* document: name pattern ^[a-zA-Z][a-zA-Z0-9_]*$, type enumeration, field
\* object required for field-filter types, values_source required for the
\* dropdown widget.
CardSchemaViolation(param) ==
    \/ param.name = <<>>
    \/ Head(param.name) \notin UpperCase \cup LowerCase
    \/ \E c \in Range(param.name) : ~IsAlnum(c) /\ c # "_"
    \/ param.type \notin (DOMAIN SIMPLE_PARAMETER_TYPES) \cup FIELD_FILTER_TYPES
    \/ param.type \in FIELD_FILTER_TYPES /\ ~Has(param.field)
    \/ param.ui_widget = Str("dropdown") /\ ~Has(param.values_source)

RECURSIVE DuplicateNameErrors(_, _, _)
DuplicateNameErrors(ps, n, seen_names) ==
    IF n > Len(ps) THEN <<>>
    ELSE LET name == ps[n].name IN
         IF name # <<>> /\ name \in seen_names
         THEN <<Error("duplicate_name", n - 1, name)>>
                  \o DuplicateNameErrors(ps, n + 1, seen_names)
         ELSE IF name # <<>>
         THEN DuplicateNameErrors(ps, n + 1, seen_names \cup {name})
         ELSE DuplicateNameErrors(ps, n + 1, seen_names)

StartsWithDate(t) ==
    t \in {"date/single", "date/range", "date/relative", "date/all-options",
           "date/month-year", "date/quarter-year"}

RECURSIVE validate_parameter_widget_compatibility(_, _)
validate_parameter_widget_compatibility(ps, n) ==
    IF n > Len(ps) THEN <<>>
    ELSE LET param == ps[n]
             search == IF /\ param.ui_widget = Str("search")
                          /\ param.type \notin {"category", "string/contains",
                                                "string/starts-with", "string/ends-with"}
                       THEN <<Error("search_widget", n - 1, param.name)>> ELSE <<>>
             dropdown == IF /\ param.ui_widget = Str("dropdown")
                            /\ StartsWithDate(param.type)
                            /\ param.type # "date/single"
                         THEN <<Error("dropdown_widget", n - 1, param.name)>> ELSE <<>>
         IN search \o dropdown \o validate_parameter_widget_compatibility(ps, n + 1)

\* param.get("required", False) and ("default" not in param or default is None)
RequiredWithoutDefault(param) ==
    Truthy(param.required) /\ (~Has(param.default) \/ param.default = None)

RECURSIVE RequiredErrors(_, _)
RequiredErrors(ps, n) ==
    IF n > Len(ps) THEN <<>>
    ELSE (IF RequiredWithoutDefault(ps[n])
          THEN <<Error("required_without_default", n - 1, ps[n].name)>> ELSE <<>>)
         \o RequiredErrors(ps, n + 1)

\* jsonschema.validate raises on one violation, whose path names one offending
\* item; the business rules below it are then skipped.
SchemaErrors(offending) ==
    {<<Error("schema", n - 1, <<>>)>> : n \in offending}

BusinessErrors(ps) ==
    DuplicateNameErrors(ps, 1, {})
        \o validate_parameter_widget_compatibility(ps, 1)
        \o RequiredErrors(ps, 1)

\* The set of error lists validate_enhanced_parameters can return.
validate_enhanced_parameters(ps) ==
    IF \E n \in DOMAIN ps : CardSchemaViolation(ps[n])
    THEN SchemaErrors({n \in DOMAIN ps : CardSchemaViolation(ps[n])})
    ELSE {BusinessErrors(ps)}

(***************************************************************************)
(* Stage (a), dashboard scope: validate_enhanced_dashboard_parameters      *)
(***************************************************************************)
TEXT_PARAMETER_TYPES ==
    {"string/=", "string/!=", "string/contains", "string/does-not-contain",
     "string/starts-with", "string/ends-with"}

NUMBER_PARAMETER_TYPES ==
    {"number/=", "number/!=", "number/between", "number/>=", "number/<="}

DATE_PARAMETER_TYPES ==
    {"date/single", "date/range", "date/month-year", "date/quarter-year",
     "date/relative", "date/all-options"}

MULTI_SELECT_SUPPORTED ==
    {"string/=", "string/!=", "string/contains", "string/does-not-contain",
     "string/starts-with", "string/ends-with", "number/=", "number/!=", "id"}

MULTI_SELECT_FORBIDDEN ==
    {"date/single", "date/range", "date/month-year", "date/quarter-year",
     "date/relative", "date/all-options", "temporal-unit", "number/between",
     "number/>=", "number/<="}

VALID_TEMPORAL_UNITS ==
    {"minute", "hour", "day", "week", "month", "quarter", "year",
     "minute-of-hour", "hour-of-day", "day-of-week", "day-of-month",
     "day-of-year", "week-of-year", "month-of-year", "quarter-of-year"}

SECTION_ID_MAPPINGS ==
    [t \in TEXT_PARAMETER_TYPES \cup NUMBER_PARAMETER_TYPES
            \cup DATE_PARAMETER_TYPES \cup {"temporal-unit", "id"} |->
        CASE t \in TEXT_PARAMETER_TYPES -> "string"
          [] t \in NUMBER_PARAMETER_TYPES -> "number"
          [] t \in DATE_PARAMETER_TYPES -> "date"
          [] t = "temporal-unit" -> "temporal-unit"
          [] t = "id" -> "id"]

\* schemas/enhanced_dashboard_parameters.json: a parameter is an object with
\* a non-empty name and a type of the dashboard vocabulary.
DashboardSchemaViolation(param) ==
    \/ param.name = <<>>
    \/ param.type \notin DOMAIN SECTION_ID_MAPPINGS

IsList(v) == v.k = "list"
IsStr(v) == v.k = "str"
IsNumber(v) == v.k = "num"

\* param.get("isMultiSelect", False)
IsMultiSelect(param) == Truthy(param.isMultiSelect)

RECURSIVE DashboardNameErrors(_, _, _)
DashboardNameErrors(ps, n, seen_names) ==
    IF n > Len(ps) THEN <<>>
    ELSE LET name == ps[n].name
             dup == name # <<>> /\ name \in seen_names
             tab == IF name = <<"t", "a", "b">>
                    THEN <<Error("reserved_name", n - 1, name)>> ELSE <<>>
         IN (IF dup THEN <<Error("duplicate_name", n - 1, name)>> ELSE <<>>)
                \o tab
                \o DashboardNameErrors(ps, n + 1,
                       IF ~dup /\ name # <<>> THEN seen_names \cup {name}
                       ELSE seen_names)

validate_multi_select_compatibility(param, n) ==
    IF IsMultiSelect(param) /\ param.type \in MULTI_SELECT_FORBIDDEN
    THEN <<Error("multi_select", n - 1, param.name)>> ELSE <<>>

RECURSIVE validate_temporal_units(_, _, _)
validate_temporal_units(units, param, n) ==
    IF units = <<>> THEN <<>>
    ELSE (IF Head(units) \notin VALID_TEMPORAL_UNITS
          THEN <<Error("invalid_temporal_unit", n - 1, param.name)>> ELSE <<>>)
         \o validate_temporal_units(Tail(units), param, n)

TemporalUnitErrorsMut(param, n) == <<>>
\* "if param_type == 'temporal-unit':" of validate_enhanced_dashboard_parameters
TemporalUnitErrors(param, n) ==
    IF param.type # "temporal-unit" THEN <<>>
    ELSE IF ~Truthy(param.temporal_units)
    THEN <<Error("temporal_units_empty", n - 1, param.name)>>
    ELSE validate_temporal_units(param.temporal_units.l, param, n)

validate_values_source_config(param, n) ==
    LET vs == param.values_source IN
    IF ~Has(vs) THEN <<>>
    ELSE IF vs.type = "static"
    THEN (IF vs.values = <<>>
          THEN <<Error("static_values_empty", n - 1, param.name)>> ELSE <<>>)
    ELSE IF vs.type = "card"
    THEN (IF ~Has(vs.card_id)
          THEN <<Error("card_id_missing", n - 1, param.name)>> ELSE <<>>)
         \o (IF ~Has(vs.value_field)
             THEN <<Error("value_field_missing", n - 1, param.name)>> ELSE <<>>)
    ELSE <<>>

validate_default_value_format(param, n) ==
    LET d == param.default
        multi == IsMultiSelect(param)
        E(rule) == <<Error(rule, n - 1, param.name)>>
    IN
    IF ~Has(d) \/ d = None THEN <<>>
    ELSE (IF multi /\ ~IsList(d) THEN E("default_not_array") ELSE <<>>)
      \o (IF param.type \in NUMBER_PARAMETER_TYPES
          THEN (IF multi
                THEN (IF ~IsList(d) \/ \E v \in Range(d.l) : ~IsNumber(v)
                      THEN E("default_number_array") ELSE <<>>)
                ELSE IF param.type = "number/between"
                THEN (IF ~IsList(d) \/ Len(d.l) # 2
                      THEN E("default_between") ELSE <<>>)
                ELSE IF ~IsNumber(d) THEN E("default_number") ELSE <<>>)
          ELSE IF param.type \in DATE_PARAMETER_TYPES
          THEN (IF ~IsStr(d) THEN E("default_date") ELSE <<>>)
          ELSE IF param.type \in TEXT_PARAMETER_TYPES \/ param.type = "id"
          THEN (IF multi
                THEN (IF ~IsList(d) \/ \E v \in Range(d.l) : ~IsStr(v)
                      THEN E("default_string_array") ELSE <<>>)
                ELSE IF ~IsStr(d) THEN E("default_string") ELSE <<>>)
          ELSE IF param.type = "temporal-unit"
          THEN (IF ~IsStr(d) \/ d.s \notin VALID_TEMPORAL_UNITS
                THEN E("default_temporal_unit") ELSE <<>>)
          ELSE <<>>)

DashboardRequiredErrors(param, n) ==
    IF ~Truthy(param.required) THEN <<>>
    ELSE IF ~Has(param.default) \/ param.default = None
    THEN <<Error("required_without_default", n - 1, param.name)>>
    ELSE IF IsList(param.default) /\ Len(param.default.l) = 0
    THEN <<Error("required_empty_default", n - 1, param.name)>>
    ELSE IF IsStr(param.default) /\ param.default.s = ""
    THEN <<Error("required_empty_default", n - 1, param.name)>>
    ELSE <<>>

RECURSIVE DashboardParameterErrors(_, _)
DashboardParameterErrors(ps, n) ==
    IF n > Len(ps) THEN <<>>
    ELSE validate_multi_select_compatibility(ps[n], n)
            \o TemporalUnitErrors(ps[n], n)
            \o validate_values_source_config(ps[n], n)
            \o validate_default_value_format(ps[n], n)
            \o DashboardRequiredErrors(ps[n], n)
            \o DashboardParameterErrors(ps, n + 1)

\* The set of error lists validate_enhanced_dashboard_parameters can return.
validate_enhanced_dashboard_parameters(ps) ==
    IF \E n \in DOMAIN ps : DashboardSchemaViolation(ps[n])
    THEN SchemaErrors({n \in DOMAIN ps : DashboardSchemaViolation(ps[n])})
    ELSE {DashboardNameErrors(ps, 1, {}) \o DashboardParameterErrors(ps, 1)}

(***************************************************************************)
(* Stage (c), query scope: process_single_parameter and its helpers        *)
(***************************************************************************)
is_field_filter_parameter(param_type) == param_type \in FIELD_FILTER_TYPES

resolve_field_reference(field_config) == <<"field", field_config.field_id, "null">>

get_parameter_targetMut(param_name, is_field_filter) ==
    <<"dimension", <<"template-tag", param_name>> >>
get_parameter_target(param_name, is_field_filter) ==
    IF is_field_filter
    THEN <<"dimension", <<"template-tag", param_name>> >>
    ELSE <<"variable", <<"template-tag", param_name>> >>

convert_ui_widget_to_values_query_typeMut(ui_widget) == "list"
convert_ui_widget_to_values_query_type(ui_widget) ==
    IF ~Has(ui_widget) \/ ui_widget = None THEN "none"
    ELSE IF ui_widget.s \in DOMAIN UI_WIDGET_MAPPINGS
    THEN UI_WIDGET_MAPPINGS[ui_widget.s] ELSE "none"

\* str() of a non-negative integer or of a string
DigitChar(d) == CASE d = 0 -> "0" [] d = 1 -> "1" [] d = 2 -> "2" [] d = 3 -> "3"
                  [] d = 4 -> "4" [] d = 5 -> "5" [] d = 6 -> "6" [] d = 7 -> "7"
                  [] d = 8 -> "8" [] d = 9 -> "9"

RECURSIVE Decimal(_)
Decimal(n) == IF n < 10 THEN DigitChar(n) ELSE Decimal(n \div 10) \o DigitChar(n % 10)

PyStrMut(v) == v
PyStr(v) == IF v.k = "num" THEN Str(Decimal(v.n)) ELSE v

FieldRef(name) == <<"field", name, "type/Text">>

build_values_source_configMut(values_source, field_config) == <<None, None>>
\* Returns <<values_source_type, values_source_config>>.
build_values_source_config(values_source, field_config) ==
    IF ~Has(values_source) THEN <<None, None>>
    ELSE IF values_source.type = "static"
    THEN LET values == values_source.values
             formatted_values ==
                 IF Len(values) > 0 /\ IsNumber(values[1])
                 THEN [n \in DOMAIN values |-> List(<<PyStr(values[n])>>)]
                 ELSE values
         IN <<Str("static-list"), [k |-> "config", values |-> formatted_values]>>
    ELSE IF values_source.type = "card"
    THEN <<Str("card"),
           [k |-> "config",
            card_id |-> values_source.card_id,
            value_field |-> FieldRef(values_source.value_field),
            label_field |-> IF Has(values_source.label_field)
                            THEN FieldRef(values_source.label_field)
                            ELSE <<>>]>>
    ELSE IF values_source.type = "connected" /\ Has(field_config)
    THEN <<None, [k |-> "config"]>>
    ELSE <<None, None>>

is_number_dropdown(param) ==
    /\ param.type = "number/="
    /\ param.ui_widget = Str("dropdown")
    /\ Has(param.values_source)
    /\ param.values_source.type = "static"

DisplayName(param) ==
    IF Has(param.display_name) THEN param.display_name.s ELSE param.name

TagIdMut(param_id) == "u0"
\* the id create_template_tag stores in the tag
TagId(param_id) == param_id

create_template_tag(param_name, param_type, param, param_id) ==
    [type |-> IF param_type \in DOMAIN SIMPLE_PARAMETER_TYPES
              THEN SIMPLE_PARAMETER_TYPES[param_type] ELSE "dimension",
     name |-> param_name,
     id |-> TagId(param_id),
     display_name |-> DisplayName(param),
     dimension |-> IF param_type \in DOMAIN SIMPLE_PARAMETER_TYPES THEN Absent
                   ELSE [k |-> "ref", ref |-> resolve_field_reference(param.field)],
     widget_type |-> IF param_type \in DOMAIN SIMPLE_PARAMETER_TYPES THEN Absent
                     ELSE Str(param_type),
     default |-> IF Has(param.default) /\ param.default # None
                 THEN (IF is_number_dropdown(param) /\ ~IsList(param.default)
                       THEN List(<<PyStr(param.default)>>)
                       ELSE param.default)
                 ELSE Absent,
     required |-> param.required]

\* Returns <<processed_param, template_tag>>.
process_single_parameter(param, param_id) ==
    LET param_name == param.name
        param_type == param.type
        values_query_type == convert_ui_widget_to_values_query_type(param.ui_widget)
        source == IF values_query_type \in {"list", "search"}
                  THEN build_values_source_config(param.values_source, param.field)
                  ELSE <<None, None>>
        processed_param ==
            [id |-> param_id,
             type |-> param_type,
             target |-> get_parameter_target(param_name,
                                             is_field_filter_parameter(param_type)),
             name |-> DisplayName(param),
             slug |-> generate_slug(param_name),
             default |-> IF Has(param.default)
                         THEN (IF is_number_dropdown(param) /\ ~IsList(param.default)
                               THEN List(<<PyStr(param.default)>>)
                               ELSE param.default)
                         ELSE Absent,
             required |-> param.required,
             values_query_type |-> values_query_type,
             values_source_type |-> IF source[1] # None THEN source[1] ELSE Absent,
             values_source_config |-> IF source[2] # None THEN source[2] ELSE Absent]
    IN <<processed_param, create_template_tag(param_name, param_type, param, param_id)>>

(***************************************************************************)
(* Stage (c), dashboard scope: process_single_dashboard_parameter          *)
(***************************************************************************)
determine_section_id(param_type, section_id_override) ==
    IF Truthy(section_id_override) THEN section_id_override.s
    ELSE IF param_type \in DOMAIN SECTION_ID_MAPPINGS
    THEN SECTION_ID_MAPPINGS[param_type] ELSE "string"

RECURSIVE process_static_values(_)
process_static_values(values) ==
    IF values = <<>> THEN <<>>
    ELSE <<List(<<PyStr(Head(values))>>)>> \o process_static_values(Tail(values))

build_dashboard_values_source_config(param) ==
    LET values_source == param.values_source IN
    IF ~Has(values_source) THEN <<None, None>>
    ELSE IF values_source.type = "static"
    THEN <<Str("static-list"),
           [k |-> "config", values |-> process_static_values(values_source.values)]>>
    ELSE IF values_source.type = "card"
    THEN <<Str("card"),
           [k |-> "config",
            card_id |-> values_source.card_id,
            value_field |-> FieldRef(values_source.value_field),
            label_field |-> IF Has(values_source.label_field)
                            THEN FieldRef(values_source.label_field)
                            ELSE <<>>]>>
    ELSE IF values_source.type = "connected"
    THEN <<None, [k |-> "config"]>>
    ELSE <<None, None>>

determine_values_query_type(param) ==
    IF ~Has(param.values_source) THEN "none"
    ELSE CASE param.values_source.type = "static" -> "list"
           [] param.values_source.type = "card" -> "search"
           [] param.values_source.type = "connected" -> "list"
           [] OTHER -> "none"

\* The ids the "generate until not in existing_ids" loop can end with.
GeneratedDashboardIds(pool, ids) == pool \ ids

process_single_dashboard_parameter(param, param_id) ==
    LET values_query_type == determine_values_query_type(param)
        source == IF values_query_type \in {"list", "search"}
                  THEN build_dashboard_values_source_config(param)
                  ELSE <<None, None>>
    IN [id |-> param_id,
        name |-> param.name,
        slug |-> generate_slug(param.name),
        type |-> param.type,
        sectionId |-> IF param.type = "string/=" /\ param.sectionId = Str("location")
                      THEN "location"
                      ELSE determine_section_id(param.type, param.sectionId),
        required |-> param.required,
        default |-> IF Has(param.default) /\ param.default # None
                    THEN param.default ELSE Absent,
        isMultiSelect |-> param.isMultiSelect,
        temporal_units |-> IF param.type = "temporal-unit"
                           THEN param.temporal_units ELSE Absent,
        values_query_type |-> values_query_type,
        values_source_type |-> IF source[1] # None THEN source[1] ELSE Absent,
        values_source_config |-> IF source[2] # None THEN source[2] ELSE Absent]

(***************************************************************************)
(* Inputs                                                                  *)
(***************************************************************************)
Names == {<<"a", "_", "b">>, <<"A", "_", "_", "b">>, <<"a", "b">>}

\* Outcomes of the random id generators (uuid.uuid4, random.choices).
IdPool == {"u1", "u2", "u3", "u4"}

ParameterSpec(name, type, field, required, default, id, values_source) ==
    [name |-> name, type |-> type, display_name |-> Absent, field |-> field,
     required |-> required, default |-> default, ui_widget |-> Absent,
     values_source |-> values_source, id |-> id, isMultiSelect |-> Absent,
     temporal_units |-> Absent, sectionId |-> Absent]

CardSource(card_id, value_field, label_field) ==
    [k |-> "values_source", type |-> "card", values |-> <<>>,
     card_id |-> card_id, value_field |-> value_field, label_field |-> label_field]

RequiredDefaults ==
    {<<Absent, Absent>>, <<Bool(TRUE), Absent>>, <<Bool(TRUE), Str("")>>,
     <<Bool(TRUE), Str("x")>>}

QueryTypes == {<<"category", Absent>>, <<"string/=", Field(1, 2, 3)>>, <<"bogus", Absent>>}

QuerySpecs ==
    {ParameterSpec(n, t[1], t[2], r[1], r[2], Absent, Absent) :
        n \in Names, t \in QueryTypes, r \in RequiredDefaults}

DashboardSpecs ==
    {ParameterSpec(n, t, Absent, r[1], r[2], d, v) :
        n \in Names, t \in {"string/=", "bogus"},
        r \in RequiredDefaults,
        d \in {Absent, Str("u1")},
        v \in {Absent, CardSource(Num(7), Str("c"), Absent)}}

Batches(S) == UNION {[1..n -> S] : n \in 0..MaxParams}

\* What GET table/{id}/query_metadata can answer: the table's fields, an
\* error triple, or an exception of the transport.
TableResponses ==
    {[k |-> "ok", fields |-> {1, 2}], [k |-> "ok", fields |-> {1, 2, 3}],
     [k |-> "error"], [k |-> "raise"]}

\* What GET card/{id} can answer: an error triple, an exception of the
\* transport, or the card with the names of its result_metadata columns.
CardResponses ==
    {[k |-> "error"], [k |-> "raise"], [k |-> "ok", result_metadata |-> {}],
     [k |-> "ok", result_metadata |-> {"d"}], [k |-> "ok", result_metadata |-> {"c"}],
     [k |-> "ok", result_metadata |-> {"c", "l"}]}

NoBody == [k |-> "none"]
Request(method, endpoint, id, resp, body) ==
    [method |-> method, endpoint |-> endpoint, id |-> id, resp |-> resp, body |-> body]

IsDashboard == tool = "process_enhanced_dashboard_parameters"

InitCall ==
    /\ i = 1
    /\ errors = <<>>
    /\ processed_parameters = <<>>
    /\ template_tags = <<>>
    /\ existing_ids = {}
    /\ generated = <<>>
    /\ requests = <<>>
    /\ result = "running"
    /\ waiting = <<>>
    /\ data = <<>>
    /\ tab_id = None
    /\ page = 1
    /\ page_size = 20
    /\ dashcards = <<>>
    /\ card_parameters_by_card = <<>>
    /\ processed_dashcards = <<>>

Init ==
    /\ tool \in {"process_enhanced_parameters", "process_enhanced_dashboard_parameters"}
    /\ parameters \in Batches(IF IsDashboard THEN DashboardSpecs ELSE QuerySpecs)
    /\ arg = "list"
    /\ available = TRUE
    /\ query_given = FALSE
    /\ pc = "validate"
    /\ InitCall

(***************************************************************************)
(* process_enhanced_parameters                                             *)
(***************************************************************************)
\* first position >= n whose spec has a "field" key, Len + 1 if none
RECURSIVE NextFieldIndex(_, _)
NextFieldIndex(ps, n) ==
    IF n > Len(ps) \/ Has(ps[n].field) THEN n ELSE NextFieldIndex(ps, n + 1)

\* "if not is_valid: return [], {}, validation_errors", else on to stage (b)
StageFailedMut(errs) == FALSE
StageFailed(errs) == errs # <<>>

\* Leave the reference loop at position n: next request, or the stage's end.
AfterReferences(n, errs) ==
    IF n <= Len(parameters) THEN /\ pc' = "references"
                                 /\ i' = n
    ELSE IF StageFailed(errs) \/ Len(parameters) = 0
    THEN /\ pc' = "returned"
         /\ i' = i
    ELSE /\ pc' = "process"
         /\ i' = 1

ValidateParameters ==
    /\ pc = "validate"
    /\ ~IsDashboard
    /\ \E errs \in validate_enhanced_parameters(parameters) :
          /\ errors' = errs
          /\ IF StageFailed(errs)
             THEN pc' = "returned" /\ i' = i
             ELSE AfterReferences(NextFieldIndex(parameters, 1), errs)
    /\ UNCHANGED <<linker, waiting, tab_call, tool, parameters, arg, available, query_given,
                   processed_parameters, template_tags, existing_ids, generated,
                   requests, result>>

FieldReferenceErrorsMut(param, n, resp) ==
    IF resp.k = "error"
    THEN <<Error("table_inaccessible", n - 1, param.name)>>
    ELSE <<>>
FieldReferenceErrors(param, n, resp) ==
    IF resp.k = "error"
    THEN <<Error("table_inaccessible", n - 1, param.name)>>
    ELSE IF resp.k = "raise"
    THEN <<Error("field_validation_exception", n - 1, param.name)>>
    ELSE IF param.field.field_id \notin resp.fields
    THEN <<Error("field_not_found", n - 1, param.name)>>
    ELSE <<>>

\* One iteration of validate_field_references that reaches its await.
ValidateFieldReference ==
    /\ pc = "references"
    /\ ~IsDashboard
    /\ \E resp \in TableResponses :
          LET param == parameters[i]
              errs == errors \o FieldReferenceErrors(param, i, resp)
          IN /\ requests' = Append(requests,
                     Request("GET", "table/query_metadata", param.field.table_id,
                             resp, NoBody))
             /\ errors' = errs
             /\ AfterReferences(NextFieldIndex(parameters, i + 1), errs)
    /\ UNCHANGED <<linker, waiting, tab_call, tool, parameters, arg, available, query_given,
                   processed_parameters, template_tags, existing_ids, generated,
                   result>>

\* One iteration of the loop of process_enhanced_parameters.
ProcessParameter ==
    /\ pc = "process"
    /\ ~IsDashboard
    /\ \E param_id \in IdPool :
          LET out == process_single_parameter(parameters[i], param_id)
              name == out[2].name
          IN /\ generated' = Append(generated, param_id)
             /\ processed_parameters' = Append(processed_parameters, out[1])
             /\ template_tags' =
                    [n \in DOMAIN template_tags \cup {name} |->
                        IF n = name THEN out[2] ELSE template_tags[n]]
    /\ i' = i + 1
    /\ pc' = IF i = Len(parameters) THEN "returned" ELSE "process"
    /\ UNCHANGED <<linker, waiting, tab_call, tool, parameters, arg, available, query_given,
                   errors,
                   existing_ids, requests, result>>

(***************************************************************************)
(* process_enhanced_dashboard_parameters                                   *)
(***************************************************************************)
NeedsCardCheck(param) ==
    /\ Has(param.values_source)
    /\ param.values_source.type = "card"
    /\ Truthy(param.values_source.card_id)

\* first position >= n whose spec has a card values source, Len + 1 if none
RECURSIVE NextCardIndex(_, _)
NextCardIndex(ps, n) ==
    IF n > Len(ps) \/ NeedsCardCheck(ps[n]) THEN n ELSE NextCardIndex(ps, n + 1)

ValidateDashboardParameters ==
    /\ pc = "validate"
    /\ IsDashboard
    /\ \E errs \in validate_enhanced_dashboard_parameters(parameters) :
          /\ errors' = errs
          /\ IF StageFailed(errs)
             THEN pc' = "returned" /\ i' = i
             ELSE AfterReferences(NextCardIndex(parameters, 1), errs)
    /\ UNCHANGED <<linker, waiting, tab_call, tool, parameters, arg, available, query_given,
                   processed_parameters, template_tags, existing_ids, generated,
                   requests, result>>

CardReferenceErrorsMut(param, n, resp) == <<>>
\* The messages one iteration of validate_card_references appends.
CardReferenceErrors(param, n, resp) ==
    LET vs == param.values_source
        E(rule) == <<Error(rule, n - 1, param.name)>>
    IN
    IF resp.k = "error" THEN E("card_inaccessible")
    ELSE IF resp.k = "raise" THEN E("card_validation_exception")
    ELSE IF resp.result_metadata = {} THEN E("card_not_materialized")
    ELSE (IF Truthy(vs.value_field) /\ vs.value_field.s \notin resp.result_metadata
          THEN E("value_field_not_found") ELSE <<>>)
      \o (IF Truthy(vs.label_field) /\ vs.label_field.s \notin resp.result_metadata
          THEN E("label_field_not_found") ELSE <<>>)

\* One iteration of validate_card_references that reaches its await.
ValidateCardReference ==
    /\ pc = "references"
    /\ IsDashboard
    /\ \E resp \in CardResponses :
          LET param == parameters[i]
              errs == errors \o CardReferenceErrors(param, i, resp)
          IN /\ requests' = Append(requests,
                     Request("GET", "card", param.values_source.card_id.n,
                             resp, NoBody))
             /\ errors' = errs
             /\ AfterReferences(NextCardIndex(parameters, i + 1), errs)
    /\ UNCHANGED <<linker, waiting, tab_call, tool, parameters, arg, available, query_given,
                   processed_parameters, template_tags, existing_ids, generated,
                   result>>

\* One iteration of the loop of process_enhanced_dashboard_parameters.
ProcessDashboardParameter ==
    /\ pc = "process"
    /\ IsDashboard
    /\ LET param == parameters[i] IN
       IF Truthy(param.id)
       THEN /\ processed_parameters' =
                   Append(processed_parameters,
                          process_single_dashboard_parameter(param, param.id.s))
            /\ existing_ids' = existing_ids \cup {param.id.s}
            /\ UNCHANGED generated
       ELSE \E param_id \in GeneratedDashboardIds(IdPool, existing_ids) :
               /\ processed_parameters' =
                      Append(processed_parameters,
                             process_single_dashboard_parameter(param, param_id))
               /\ existing_ids' = existing_ids \cup {param_id}
               /\ generated' = Append(generated, param_id)
    /\ i' = i + 1
    /\ pc' = IF i = Len(parameters) THEN "returned" ELSE "process"
    /\ UNCHANGED <<linker, waiting, tab_call, tool, parameters, arg, available, query_given,
                   errors,
                   template_tags, requests, result>>

QueryNext == ValidateParameters \/ ValidateFieldReference \/ ProcessParameter

DashboardNext ==
    ValidateDashboardParameters \/ ValidateCardReference \/ ProcessDashboardParameter

Next == QueryNext \/ DashboardNext

Spec == Init /\ [][Next]_vars

(***************************************************************************)
(* create_card and update_card                                             *)
(*                                                                         *)
(* The calls pass a valid card_type and no visualization_settings, name,   *)
(* description, collection_id, archived or display.                        *)
(***************************************************************************)
CardTools == {"create_card", "update_card"}

CardSpecs == {p \in QuerySpecs : ~Has(p.default)}

InitCard ==
    /\ tool \in CardTools
    /\ arg \in {"none", "invalid_json", "list"}
    /\ parameters \in (IF arg = "list" THEN Batches(CardSpecs) ELSE {<<>>})
    /\ available \in BOOLEAN
    /\ query_given \in (IF tool = "create_card" THEN {TRUE} ELSE BOOLEAN)
    /\ pc = "start"
    /\ InitCall

\* process_enhanced_parameters was called: "ENHANCED_PARAMETERS_AVAILABLE and
\* parsed_parameters"
ParametersCompiled == arg = "list" /\ parameters # <<>> /\ available

\* "if errors: return json.dumps({... 'Invalid enhanced parameters' ...})"
CompileFailedMut(errs) == FALSE
CompileFailed(errs) == errs # <<>>

Return(outcome) ==
    /\ pc' = "done"
    /\ result' = outcome

\* The tool's entry up to process_enhanced_parameters.
ParseParameters ==
    /\ pc = "start"
    /\ tool \in CardTools
    /\ IF arg = "invalid_json" THEN Return("parameter_parsing_error")
       ELSE IF arg = "none" \/ parameters = <<>> THEN pc' = "returned" /\ UNCHANGED result
       ELSE IF ~available THEN Return("not_available")
       ELSE pc' = "validate" /\ UNCHANGED result
    /\ UNCHANGED <<linker, waiting, tab_call, tool, parameters, arg, available, query_given,
                   i, errors,
                   processed_parameters, template_tags, existing_ids, generated,
                   requests>>

ReturnInvalidParameters ==
    /\ pc = "returned"
    /\ tool \in CardTools
    /\ CompileFailed(errors)
    /\ Return("invalid_parameters")
    /\ UNCHANGED <<linker, waiting, tab_call, tool, parameters, arg, available, query_given,
                   i, errors,
                   processed_parameters, template_tags, existing_ids, generated,
                   requests>>

\* execute_sql_query: POST dataset with empty template tags
ExecuteSqlQuery(from) ==
    /\ pc = from
    /\ \E success \in BOOLEAN :
          /\ requests' = Append(requests,
                 Request("POST", "dataset", 0, [k |-> "dataset", success |-> success],
                         NoBody))
          /\ IF success THEN pc' = "write" /\ UNCHANGED result
             ELSE Return("query_error")
    /\ UNCHANGED <<linker, waiting, tab_call, tool, parameters, arg, available, query_given,
                   i, errors,
                   processed_parameters, template_tags, existing_ids, generated>>

CardBody(with_query) ==
    [k |-> "card",
     parameters |-> IF ParametersCompiled THEN List(processed_parameters) ELSE Absent,
     dataset_query |-> with_query,
     template_tags |-> IF with_query THEN template_tags ELSE <<>>]

CreateCardExecuteQuery ==
    /\ tool = "create_card"
    /\ ~CompileFailed(errors)
    /\ ExecuteSqlQuery("returned")

CreateCardPost ==
    /\ pc = "write"
    /\ tool = "create_card"
    /\ \E success \in BOOLEAN :
          /\ requests' = Append(requests,
                 Request("POST", "card", 0, [k |-> "write", success |-> success],
                         CardBody(TRUE)))
          /\ Return(IF success THEN "created" ELSE "creation_error")
    /\ UNCHANGED <<linker, waiting, tab_call, tool, parameters, arg, available, query_given,
                   i, errors,
                   processed_parameters, template_tags, existing_ids, generated>>

\* GET card/{id}, then the payload is prepared up to the next await.
UpdateCardGet ==
    /\ pc = "returned"
    /\ tool = "update_card"
    /\ ~CompileFailed(errors)
    /\ \E resp \in {"error", "card", "card_without_database"} :
          /\ requests' = Append(requests,
                 Request("GET", "card", 0, [k |-> resp], NoBody))
          /\ IF resp = "error" THEN Return("retrieval_error")
             ELSE IF query_given
             THEN (IF resp = "card_without_database" THEN Return("validation_error")
                   ELSE pc' = "execute" /\ UNCHANGED result)
             ELSE IF ~ParametersCompiled THEN Return("no_fields")
             ELSE pc' = "write" /\ UNCHANGED result
    /\ UNCHANGED <<linker, waiting, tab_call, tool, parameters, arg, available, query_given,
                   i, errors,
                   processed_parameters, template_tags, existing_ids, generated>>

UpdateCardExecuteQuery ==
    /\ tool = "update_card"
    /\ ExecuteSqlQuery("execute")

UpdateCardPut ==
    /\ pc = "write"
    /\ tool = "update_card"
    /\ \E success \in BOOLEAN :
          /\ requests' = Append(requests,
                 Request("PUT", "card", 0, [k |-> "write", success |-> success],
                         CardBody(query_given)))
          /\ Return(IF success THEN "updated" ELSE "update_error")
    /\ UNCHANGED <<linker, waiting, tab_call, tool, parameters, arg, available, query_given,
                   i, errors,
                   processed_parameters, template_tags, existing_ids, generated>>

CardNext ==
    \/ ParseParameters
    \/ ReturnInvalidParameters
    \/ CreateCardExecuteQuery
    \/ CreateCardPost
    \/ UpdateCardGet
    \/ UpdateCardExecuteQuery
    \/ UpdateCardPut

NextCard == CardNext \/ QueryNext

SpecCard == InitCard /\ [][NextCard]_vars

(***************************************************************************)
(* Dashboard compilation over the dashboard-only vocabulary                *)
(*                                                                         *)
(* The batches draw on the reserved name, temporal-unit parameters,        *)
(* isMultiSelect with scalar and list defaults, and the three kinds of     *)
(* values source.                                                          *)
(***************************************************************************)
StaticSource(values) ==
    [k |-> "values_source", type |-> "static", values |-> values,
     card_id |-> Absent, value_field |-> Absent, label_field |-> Absent]

ConnectedSource ==
    [k |-> "values_source", type |-> "connected", values |-> <<>>,
     card_id |-> Absent, value_field |-> Absent, label_field |-> Absent]

DashboardSpec(name, type, default, isMultiSelect, temporal_units, values_source) ==
    [ParameterSpec(name, type, Absent, Absent, default, Absent, values_source)
        EXCEPT !.isMultiSelect = isMultiSelect, !.temporal_units = temporal_units]

ReservedNameSpecs ==
    {DashboardSpec(<<"t", "a", "b">>, t, Absent, Absent, Absent, Absent) :
        t \in {"string/=", "bogus"}}

TemporalUnitSpecs ==
    {DashboardSpec(<<"a", "_", "b">>, "temporal-unit", Absent, Absent, u, Absent) :
        u \in {Absent, List(<<>>), List(<<"day">>), List(<<"day", "bogus">>)}}

MultiSelectSpecs ==
    {DashboardSpec(<<"a", "b">>, t, d, m, Absent, Absent) :
        t \in {"string/=", "number/=", "date/single"},
        m \in {Absent, Bool(TRUE), Bool(FALSE)},
        d \in {Absent, Str("x"), Num(1), List(<<Str("x")>>), List(<<Num(1)>>)}}

ValuesSourceSpecs ==
    {DashboardSpec(n, "string/=", Absent, Absent, Absent, v) :
        n \in {<<"a", "b">>, <<"a", "_", "b">>},
        v \in {CardSource(Num(7), Str("c"), Absent),
               CardSource(Num(7), Str("c"), Str("l")),
               StaticSource(<<Num(1), Num(12)>>),
               StaticSource(<<Str("p"), Str("s")>>),
               ConnectedSource}}

DashboardCases ==
    ReservedNameSpecs \cup TemporalUnitSpecs \cup MultiSelectSpecs
        \cup ValuesSourceSpecs

InitDashboard ==
    /\ tool = "process_enhanced_dashboard_parameters"
    /\ parameters \in Batches(DashboardCases)
    /\ arg = "list"
    /\ available = TRUE
    /\ query_given = FALSE
    /\ pc = "validate"
    /\ InitCall

SpecDashboard == InitDashboard /\ [][DashboardNext]_vars

(***************************************************************************)
(* Query compilation over widgets and values sources                       *)
(***************************************************************************)
QuerySpec(name, type, field, default, ui_widget, values_source) ==
    [ParameterSpec(name, type, field, Absent, default, Absent, values_source)
        EXCEPT !.ui_widget = ui_widget]

\* {"name": "order_status", "type": "category", "default": "pending",
\*  "ui_widget": "dropdown",
\*  "values_source": {"type": "static", "values": ["pending", "shipped"]}}
OrderStatus ==
    QuerySpec(<<"o", "r", "d", "e", "r", "_", "s", "t", "a", "t", "u", "s">>,
              "category", Absent, Str("pending"), Str("dropdown"),
              StaticSource(<<Str("pending"), Str("shipped")>>))

\* a category parameter behind every widget and every kind of values source
CategoryWidgetSpecs ==
    {QuerySpec(<<"a", "b">>, "category", Absent, Absent, w, v) :
        w \in {Absent, Str("input"), Str("dropdown"), Str("search")},
        v \in {Absent, StaticSource(<<Str("p"), Str("s")>>),
               StaticSource(<<Num(1), Num(12)>>), ConnectedSource,
               CardSource(Num(7), Str("c"), Absent)}}

FieldFilterWidgetSpecs ==
    {QuerySpec(<<"a", "_", "b">>, "string/contains", Field(1, 2, 3), Absent, w, v) :
        w \in {Absent, Str("dropdown"), Str("search")},
        v \in {Absent, ConnectedSource, CardSource(Num(7), Str("c"), Absent)}}

NumberWidgetSpecs ==
    {QuerySpec(<<"c", "d">>, "number/=", Absent, Absent, w, v) :
        w \in {Absent, Str("dropdown")},
        v \in {Absent, StaticSource(<<Num(1), Num(12)>>)}}

\* A field-filter type without "field" and a simple type with "field"; the
\* date types, a simple one and a field filter; names that are and are not
\* their own slug, with and without display_name; "default": null, with and
\* without "required": false, and the scalar default of a number dropdown.
FurtherSpecs ==
    {QuerySpec(<<"c", "d">>, "string/=", Absent, Absent, Absent, Absent),
     QuerySpec(<<"c", "d">>, "category", Field(1, 2, 3), Absent, Absent, Absent),
     QuerySpec(<<"c", "d">>, "date/single", Absent, Absent, Absent, Absent),
     QuerySpec(<<"d", "e">>, "date/range", Field(1, 2, 3), Absent, Absent, Absent),
     QuerySpec(<<"c", "d">>, "number/=", Absent, Num(1), Str("dropdown"),
               StaticSource(<<Num(1), Num(12)>>))}
      \cup {[QuerySpec(n, "category", Absent, Absent, Absent, Absent)
                EXCEPT !.display_name = d] :
               n \in {<<"A", "_", "_", "b">>, <<"a", "b">>},
               d \in {Absent, Str(<<"T", "a", "b">>)}}
      \cup {[QuerySpec(<<"a", "b">>, "category", Absent, None, Absent, Absent)
                EXCEPT !.required = r] : r \in {Absent, Bool(FALSE)}}

QueryCases ==
    {OrderStatus} \cup CategoryWidgetSpecs \cup FieldFilterWidgetSpecs
        \cup NumberWidgetSpecs \cup FurtherSpecs

InitQuery ==
    /\ tool = "process_enhanced_parameters"
    /\ parameters \in Batches(QueryCases)
    /\ arg = "list"
    /\ available = TRUE
    /\ query_given = FALSE
    /\ pc = "validate"
    /\ InitCall

SpecQuery == InitQuery /\ [][QueryNext]_vars

\* Both compilers over these batches.
SpecCases == (InitQuery \/ InitDashboard) /\ [][Next]_vars

(***************************************************************************)
(* validate_parameter_mappings and process_parameter_mappings              *)
(*                                                                         *)
(* Names of parameters are sequences of characters, as in the compilers.   *)
(* A dashcard is reduced to its card_id and its parameter_mappings.        *)
(***************************************************************************)
\* Longest list of dashcards a call is given.
MaxDashcards == 2

Mapping(dashboard_parameter_name, card_parameter_name) ==
    [dashboard_parameter_name |-> dashboard_parameter_name,
     card_parameter_name |-> card_parameter_name]

Dashcard(card_id, parameter_mappings) ==
    [card_id |-> card_id, parameter_mappings |-> parameter_mappings]

\* Two compiled dashboard parameters, named ab and cd.
LinkDashboardParameters ==
    <<process_single_dashboard_parameter(
          DashboardSpec(<<"a", "b">>, "string/=", Absent, Absent, Absent, Absent),
          "u1"),
      process_single_dashboard_parameter(
          DashboardSpec(<<"c", "d">>, "string/=", Absent, Absent, Absent, Absent),
          "u2")>>

\* Compiled parameters of a card: one named A__b with slug a_b and a variable
\* target, one named a_b with slug a_b and a dimension target.
VariableCardParameter ==
    process_single_parameter(
        QuerySpec(<<"A", "_", "_", "b">>, "category", Absent, Absent, Absent, Absent),
        "u3")[1]

DimensionCardParameter ==
    process_single_parameter(
        QuerySpec(<<"a", "_", "b">>, "string/contains", Field(1, 2, 3), Absent,
                  Absent, Absent),
        "u4")[1]

CardParameterLists ==
    {<<>>, <<VariableCardParameter>>,
     <<VariableCardParameter, DimensionCardParameter>>}

\* What GET card/{id} can answer to get_card_parameters.
CardParameterResponses ==
    {[k |-> "error"], [k |-> "raise"]}
        \cup {[k |-> "ok", parameters |-> l] : l \in CardParameterLists}

\* The dictionaries validate_parameter_mappings can have returned for cards
\* 1 and 2.
CardParameterDicts ==
    {<<>>,
     (1 :> <<VariableCardParameter>>),
     (1 :> <<VariableCardParameter, DimensionCardParameter>>)
         @@ (2 :> <<VariableCardParameter>>)}

Mappings ==
    {Mapping(d, c) : d \in {<<"c", "d">>, <<"e">>},
                     c \in {<<"a", "_", "b">>, <<"e">>}}

\* no parameter_mappings key, or a list of up to two mappings
MappingLists ==
    {Absent} \cup {List(l) : l \in UNION {[1..n -> Mappings] : n \in 0..2}}

Dashcards ==
    {Dashcard(1, m) : m \in MappingLists}
        \cup {Dashcard(2, m) :
                 m \in {Absent, List(<<Mapping(<<"c", "d">>, <<"a", "_", "b">>)>>)}}

InitLink ==
    /\ tool \in {"validate_parameter_mappings", "process_parameter_mappings"}
    /\ dashcards \in UNION {[1..n -> Dashcards] : n \in 0..MaxDashcards}
    /\ processed_parameters = LinkDashboardParameters
    /\ card_parameters_by_card \in
          (IF tool = "process_parameter_mappings" THEN CardParameterDicts ELSE {<<>>})
    /\ processed_dashcards = <<>>
    /\ pc = IF dashcards = <<>> THEN "returned" ELSE "mappings"
    /\ i = 1
    /\ errors = <<>>
    /\ requests = <<>>
    /\ parameters = <<>>
    /\ arg = "list"
    /\ available = TRUE
    /\ query_given = FALSE
    /\ template_tags = <<>>
    /\ existing_ids = {}
    /\ generated = <<>>
    /\ waiting = <<>>
    /\ data = <<>>
    /\ tab_id = None
    /\ page = 1
    /\ page_size = 20
    /\ result = "running"

MappingError(rule, index, mapping, name) ==
    [rule |-> rule, index |-> index, mapping |-> mapping, name |-> name]

\* "parameter_mappings" in dashcard and dashcard["parameter_mappings"]
HasMappings(dashcard) == Truthy(dashcard.parameter_mappings)

\* {param[key]: param for param in params}.get(value): the last parameter
\* with that value under the key, None if there is none
DictGet(params, key, value) ==
    LET found == {n \in DOMAIN params : params[n][key] = value}
    IN IF found = {} THEN None
       ELSE params[CHOOSE n \in found : \A m \in found : m <= n]

\* card_parameters_by_card.get(card_id, [])
CardParametersOf(by_card, card_id) ==
    IF card_id \in DOMAIN by_card THEN by_card[card_id] ELSE <<>>

\* One iteration of the loop of validate_parameter_mappings over a mapping.
MappingValidationErrors(mapping, index, j, dashboard_parameters, card_parameters) ==
    (IF \A n \in DOMAIN dashboard_parameters :
            dashboard_parameters[n].name # mapping.dashboard_parameter_name
     THEN <<MappingError("dashboard_parameter_not_found", index, j,
                         mapping.dashboard_parameter_name)>>
     ELSE <<>>)
    \o (IF \A n \in DOMAIN card_parameters :
               /\ card_parameters[n].name # mapping.card_parameter_name
               /\ card_parameters[n].slug # mapping.card_parameter_name
        THEN <<MappingError("card_parameter_not_found", index, j,
                            mapping.card_parameter_name)>>
        ELSE <<>>)

RECURSIVE DashcardValidationErrors(_, _, _, _, _)
DashcardValidationErrors(mappings, index, j, dashboard_parameters, card_parameters) ==
    IF j > Len(mappings) THEN <<>>
    ELSE MappingValidationErrors(mappings[j], index, j - 1, dashboard_parameters,
                                 card_parameters)
         \o DashcardValidationErrors(mappings, index, j + 1, dashboard_parameters,
                                     card_parameters)

NextDashcard ==
    /\ i' = i + 1
    /\ pc' = IF i = Len(dashcards) THEN "returned" ELSE "mappings"

\* One iteration of the loop of validate_parameter_mappings over a dashcard.
ValidateDashcardMappings ==
    /\ pc = "mappings"
    /\ tool = "validate_parameter_mappings"
    /\ LET dashcard == dashcards[i]
           card_id == dashcard.card_id
           Checked(card_parameters) ==
               errors' = errors \o DashcardValidationErrors(
                             dashcard.parameter_mappings.l, i - 1, 1,
                             processed_parameters, card_parameters)
       IN IF ~HasMappings(dashcard)
          THEN UNCHANGED <<errors, requests, card_parameters_by_card>>
          ELSE IF card_id \in DOMAIN card_parameters_by_card
          THEN /\ Checked(card_parameters_by_card[card_id])
               /\ UNCHANGED <<requests, card_parameters_by_card>>
          ELSE \E resp \in CardParameterResponses :
                  /\ requests' = Append(requests,
                                        Request("GET", "card", card_id, resp, NoBody))
                  /\ IF resp.k # "ok"
                     THEN /\ errors' = Append(errors,
                                 MappingError("card_inaccessible", i - 1, -1, <<>>))
                          /\ UNCHANGED card_parameters_by_card
                     ELSE /\ card_parameters_by_card' =
                                 card_parameters_by_card @@ (card_id :> resp.parameters)
                          /\ Checked(resp.parameters)
    /\ NextDashcard
    /\ UNCHANGED <<waiting, tab_call, tool, parameters, arg, available, query_given,
                   processed_parameters, template_tags, existing_ids, generated,
                   result, dashcards, processed_dashcards>>

metabase_mappingMut(card_id, dashboard_param, card_param) ==
    [card_id |-> card_id, parameter_id |-> card_param.id,
     target |-> card_param.target]
\* "Create Metabase API parameter mapping"
metabase_mapping(card_id, dashboard_param, card_param) ==
    [card_id |-> card_id, parameter_id |-> dashboard_param.id,
     target |-> card_param.target]

\* One iteration of the loop of process_parameter_mappings over a mapping:
\* the ID-based mapping, or the error appended before "continue".
ResolveMapping(mapping, index, j, card_id, dashboard_parameters, card_parameters) ==
    LET dashboard_param ==
            DictGet(dashboard_parameters, "name", mapping.dashboard_parameter_name)
        by_name == DictGet(card_parameters, "name", mapping.card_parameter_name)
        card_param ==
            IF by_name # None THEN by_name
            ELSE DictGet(card_parameters, "slug", mapping.card_parameter_name)
    IN IF dashboard_param = None
       THEN [k |-> "error",
             error |-> MappingError("dashboard_parameter_not_found", index, j,
                                    mapping.dashboard_parameter_name)]
       ELSE IF card_param = None
       THEN [k |-> "error",
             error |-> MappingError("card_parameter_not_found", index, j,
                                    mapping.card_parameter_name)]
       ELSE [k |-> "ok",
             mapping |-> metabase_mapping(card_id, dashboard_param, card_param)]

\* The dashcard's mappings, each resolved, in order.
ResolvedMappings(dashcard, index, dashboard_parameters, by_card) ==
    [j \in DOMAIN dashcard.parameter_mappings.l |->
        ResolveMapping(dashcard.parameter_mappings.l[j], index, j - 1,
                       dashcard.card_id, dashboard_parameters,
                       CardParametersOf(by_card, dashcard.card_id))]

RECURSIVE metabase_parameter_mappings(_)
metabase_parameter_mappings(resolved) ==
    IF resolved = <<>> THEN <<>>
    ELSE (IF Head(resolved).k = "ok" THEN <<Head(resolved).mapping>> ELSE <<>>)
         \o metabase_parameter_mappings(Tail(resolved))

RECURSIVE MappingErrors(_)
MappingErrors(resolved) ==
    IF resolved = <<>> THEN <<>>
    ELSE (IF Head(resolved).k = "error" THEN <<Head(resolved).error>> ELSE <<>>)
         \o MappingErrors(Tail(resolved))

\* One iteration of the loop of process_parameter_mappings over a dashcard.
ProcessDashcardMappings ==
    /\ pc = "mappings"
    /\ tool = "process_parameter_mappings"
    /\ LET dashcard == dashcards[i] IN
       IF HasMappings(dashcard)
       THEN LET resolved == ResolvedMappings(dashcard, i - 1, processed_parameters,
                                             card_parameters_by_card)
            IN /\ processed_dashcards' =
                     Append(processed_dashcards,
                            [dashcard EXCEPT !.parameter_mappings =
                                List(metabase_parameter_mappings(resolved))])
               /\ errors' = errors \o MappingErrors(resolved)
       ELSE /\ processed_dashcards' = Append(processed_dashcards, dashcard)
            /\ UNCHANGED errors
    /\ NextDashcard
    /\ UNCHANGED <<waiting, tab_call, tool, parameters, arg, available, query_given,
                   processed_parameters, template_tags, existing_ids, generated,
                   requests, result, dashcards, card_parameters_by_card>>

LinkNext == ValidateDashcardMappings \/ ProcessDashcardMappings

SpecLink == InitLink /\ [][LinkNext]_vars

(***************************************************************************)
(* Two compilation calls on one event loop                                 *)
(*                                                                         *)
(* One coroutine runs at a time; the loop may pass control to the other    *)
(* one before a call starts, while it awaits a lookup, and when it has     *)
(* returned.  The variables of the compilers hold the locals of the        *)
(* running call, waiting those of the other one.                           *)
(***************************************************************************)
\* The batches of a call: of a field filter ab and a simple parameter cd, or
\* of a dashboard parameter ab fed by card 7 and a plain one cd.
PairBatches(t) ==
    Batches(IF t = "process_enhanced_parameters"
            THEN {QuerySpec(<<"a", "b">>, "string/=", Field(1, 2, 3),
                            Absent, Absent, Absent),
                  QuerySpec(<<"c", "d">>, "category", Absent, Absent, Absent, Absent)}
            ELSE {DashboardSpec(<<"a", "b">>, "string/=", Absent, Absent, Absent,
                                CardSource(Num(7), Str("c"), Absent)),
                  DashboardSpec(<<"c", "d">>, "string/=", Absent, Absent, Absent,
                                Absent)})

\* The locals of a call that has not started.
NewCall(t, ps) ==
    [tool |-> t, parameters |-> ps, pc |-> "validate", i |-> 1, errors |-> <<>>,
     processed_parameters |-> <<>>, template_tags |-> <<>>, existing_ids |-> {},
     generated |-> <<>>, requests |-> <<>>]

\* The locals of the running call.
Locals ==
    [tool |-> tool, parameters |-> parameters, pc |-> pc, i |-> i,
     errors |-> errors, processed_parameters |-> processed_parameters,
     template_tags |-> template_tags, existing_ids |-> existing_ids,
     generated |-> generated, requests |-> requests]

InitPair ==
    /\ tool \in {"process_enhanced_parameters", "process_enhanced_dashboard_parameters"}
    /\ parameters \in PairBatches(tool)
    /\ waiting \in UNION {{NewCall(t, ps) : ps \in PairBatches(t)} :
                t \in {"process_enhanced_parameters",
                       "process_enhanced_dashboard_parameters"}}
    /\ arg = "list"
    /\ available = TRUE
    /\ query_given = FALSE
    /\ pc = "validate"
    /\ i = 1
    /\ errors = <<>>
    /\ processed_parameters = <<>>
    /\ template_tags = <<>>
    /\ existing_ids = {}
    /\ generated = <<>>
    /\ requests = <<>>
    /\ result = "running"
    /\ dashcards = <<>>
    /\ card_parameters_by_card = <<>>
    /\ processed_dashcards = <<>>
    /\ data = <<>>
    /\ tab_id = None
    /\ page = 1
    /\ page_size = 20

ResumedIdsMut(call) == existing_ids
\* "existing_ids = set()" is a local of each call
ResumedIds(call) == call.existing_ids

\* The running call awaits or ends and the loop resumes the other call.
Switch ==
    /\ waiting # <<>>
    /\ waiting.pc # "returned"
    /\ pc \in {"validate", "references", "returned"}
    /\ waiting' = Locals
    /\ tool' = waiting.tool
    /\ parameters' = waiting.parameters
    /\ pc' = waiting.pc
    /\ i' = waiting.i
    /\ errors' = waiting.errors
    /\ processed_parameters' = waiting.processed_parameters
    /\ template_tags' = waiting.template_tags
    /\ existing_ids' = ResumedIds(waiting)
    /\ generated' = waiting.generated
    /\ requests' = waiting.requests
    /\ UNCHANGED <<linker, tab_call, arg, available, query_given, result>>

SpecPair == InitPair /\ [][QueryNext \/ DashboardNext \/ Switch]_vars

(***************************************************************************)
(* get_dashboard_tab                                                       *)
(*                                                                         *)
(* A dashcard is reduced to its id, row, col and dashboard_tab_id, a tab   *)
(* to its id.  The response is taken to pass check_response_size.          *)
(***************************************************************************)
\* Longest list of dashcards the dashboard holds.
MaxCards == 3

\* Lists of dashcards whose ids are their places in the list; a dashcard
\* without "row" sorts as row 0.
TabCardLists ==
    LET Positions == {<<Absent, Num(1)>>, <<Num(0), Num(0)>>, <<Num(0), Num(1)>>,
                      <<Num(1), Num(0)>>}
        TabCards(n) ==
            {[id |-> n, row |-> p[1], col |-> p[2], dashboard_tab_id |-> t] :
                p \in Positions, t \in {Num(1), Num(2)}}
    IN UNION {{l \in [1..n -> UNION {TabCards(k) : k \in 1..n}] :
                  \A k \in 1..n : l[k].id = k} : n \in 0..MaxCards}

InitTab ==
    /\ tool = "get_dashboard_tab"
    /\ data \in {[tabs |-> tabs, dashcards |-> l] :
                    tabs \in {<<>>, <<1, 2>>}, l \in TabCardLists}
    /\ tab_id \in {None, Num(1), Num(3)}
    /\ page \in 0..(MaxCards + 1)
    /\ page_size \in 0..2
    /\ pc = "start"
    /\ result = "running"
    /\ parameters = <<>>
    /\ arg = "list"
    /\ available = TRUE
    /\ query_given = FALSE
    /\ i = 1
    /\ errors = <<>>
    /\ processed_parameters = <<>>
    /\ template_tags = <<>>
    /\ existing_ids = {}
    /\ generated = <<>>
    /\ requests = <<>>
    /\ waiting = <<>>
    /\ dashcards = <<>>
    /\ card_parameters_by_card = <<>>
    /\ processed_dashcards = <<>>

\* (a.get("row", 0), a.get("col", 0)) < (b.get("row", 0), b.get("col", 0))
KeyLess(a, b) ==
    LET Get(v) == IF Has(v) THEN v.n ELSE 0
    IN \/ Get(a.row) < Get(b.row)
       \/ Get(a.row) = Get(b.row) /\ Get(a.col) < Get(b.col)

\* list.sort is stable: a card goes behind the cards whose key is not greater.
RECURSIVE SortByPosition(_)
SortByPosition(cards) ==
    IF cards = <<>> THEN <<>>
    ELSE LET sorted == SortByPosition(SubSeq(cards, 1, Len(cards) - 1))
             card == cards[Len(cards)]
             k == Cardinality({j \in DOMAIN sorted :
                                  ~KeyLess(card, sorted[j])})
         IN SubSeq(sorted, 1, k) \o <<card>> \o SubSeq(sorted, k + 1, Len(sorted))

\* the dashcards of the tab, in the order of the dashboard
FilteredDashcards(d, tab) ==
    LET F[n \in 0..Len(d.dashcards)] ==
            IF n = 0 THEN <<>>
            ELSE IF d.tabs = <<>> \/ d.dashcards[n].dashboard_tab_id = tab
            THEN Append(F[n - 1], d.dashcards[n])
            ELSE F[n - 1]
    IN F[Len(d.dashcards)]

TotalPagesMut(total_cards, size) == total_cards \div size + 1
TotalPages(total_cards, size) ==
    IF total_cards > 0 THEN (total_cards + size - 1) \div size ELSE 1

ErrorResponse(error_type) == [k |-> "error", error_type |-> error_type]

\* The response once the tab is resolved.
TabResponse(cards, p, size) ==
    LET total_cards == Len(cards)
        total_pages == TotalPages(total_cards, size)
        start_idx == (p - 1) * size
        end_idx == IF start_idx + size < total_cards
                   THEN start_idx + size ELSE total_cards
        paginated_dashcards == SubSeq(cards, start_idx + 1, end_idx)
    IN IF p > total_pages /\ total_pages > 0
       THEN ErrorResponse("page_out_of_range")
       ELSE [k |-> "ok",
             dashcards |-> paginated_dashcards,
             dashcard_count |-> Len(paginated_dashcards),
             pagination |-> [page |-> p, page_size |-> size,
                             total_cards |-> total_cards,
                             total_pages |-> total_pages,
                             has_more |-> p < total_pages]]

GetDashboardTab ==
    /\ tool = "get_dashboard_tab"
    /\ pc = "start"
    /\ pc' = "returned"
    /\ IF page < 1 \/ page_size < 1
       THEN /\ result' = ErrorResponse("invalid_pagination")
            /\ UNCHANGED requests
       ELSE \E resp \in {"ok", "raise"} :
              /\ requests' = Append(requests,
                      Request("GET", "dashboard", 1, [k |-> resp], NoBody))
              /\ result' =
                    IF resp = "raise" THEN ErrorResponse("retrieval_error")
                    ELSE IF tab_id # None /\ data.tabs = <<>>
                    THEN ErrorResponse("invalid_tab")
                    ELSE IF tab_id # None /\ tab_id.n \notin Range(data.tabs)
                    THEN ErrorResponse("tab_not_found")
                    ELSE IF tab_id = None /\ data.tabs # <<>>
                    THEN ErrorResponse("missing_tab_id")
                    ELSE TabResponse(SortByPosition(FilteredDashcards(data, tab_id)),
                                     page, page_size)
    /\ UNCHANGED <<linker, waiting, tab_call, tool, parameters, arg, available,
                   query_given, i, errors, processed_parameters, template_tags,
                   existing_ids, generated>>

SpecTab == InitTab /\ [][GetDashboardTab]_vars

(***************************************************************************)
(* validate_parameters, the validator of tools/parameters.py               *)
(***************************************************************************)
LegacySpec(name, type, id) ==
    [name |-> name, type |-> type, id |-> id, value |-> Absent,
     sectionId |-> Absent, temporal_units |-> Absent, isMultiSelect |-> Absent,
     required |-> Absent, default |-> Absent]

LegacySpecs ==
    {LegacySpec(n, "string/=", id) :
        n \in {<<"a", "b">>, <<"c", "d">>, <<"t", "a", "b">>},
        id \in {Absent, Str("u1"), Str("u2")}}
      \cup {[LegacySpec(<<"a", "b">>, "string/contains", Absent)
                EXCEPT !.isMultiSelect = Bool(TRUE)],
            [LegacySpec(<<"a", "b">>, "temporal-unit", Absent)
                EXCEPT !.sectionId = Str("string")],
            [LegacySpec(<<"a", "b">>, "temporal-unit", Absent)
                EXCEPT !.sectionId = Str("temporal-unit"),
                       !.temporal_units = List(<<"day">>)],
            [LegacySpec(<<"c", "d">>, "date/single", Absent) EXCEPT !.value = Num(1)],
            [LegacySpec(<<"c", "d">>, "number/=", Absent) EXCEPT !.value = Str("x")],
            [LegacySpec(<<"c", "d">>, "number/=", Absent)
                EXCEPT !.value = List(<<Num(1)>>)],
            [LegacySpec(<<"c", "d">>, "string/=", Absent)
                EXCEPT !.required = Bool(TRUE)],
            [LegacySpec(<<"c", "d">>, "string/=", Absent)
                EXCEPT !.required = Bool(TRUE), !.default = Str("")],
            [LegacySpec(<<"c", "d">>, "string/=", Absent)
                EXCEPT !.required = Bool(TRUE), !.default = Str("x")],
            LegacySpec(<<"c", "d">>, "bogus", Absent)}

\* What schemas/parameters.json rejects of these specs: a type outside the
\* vocabulary of parameter types.
LegacySchemaViolation(param) == param.type = "bogus"

\* The loop of validate_parameters from position n on: duplicate ids, the
\* reserved name with the check of seen_names inside it, the value against
\* the type, sectionId and temporal_units, isMultiSelect, required.
RECURSIVE LegacyErrors(_, _, _, _)
LegacyErrors(ps, n, seen_ids, seen_names) ==
    IF n > Len(ps) THEN <<>>
    ELSE LET param == ps[n]
             E(rule) == <<Error(rule, n - 1, param.name)>>
             with_id == Truthy(param.id)
             is_tab == param.name = <<"t", "a", "b">>
             is_date == StartsWithDate(param.type)
             is_number == param.type \in NUMBER_PARAMETER_TYPES
             with_value == Has(param.value) /\ param.value # None
         IN (IF with_id /\ param.id \in seen_ids THEN E("duplicate_id") ELSE <<>>)
            \o (IF is_tab THEN E("reserved_name") ELSE <<>>)
            \o (IF is_tab /\ param.name \in seen_names
                THEN E("duplicate_name") ELSE <<>>)
            \o (IF with_value /\ is_date
                   /\ ~(IsStr(param.value) \/ IsList(param.value))
                THEN E("date_value")
                ELSE IF with_value /\ ~is_date /\ is_number
                        /\ ~(\/ IsNumber(param.value)
                             \/ (IsList(param.value)
                                    /\ \A k \in DOMAIN param.value.l :
                                          IsNumber(param.value.l[k])))
                THEN E("number_value") ELSE <<>>)
            \o (IF param.type = "temporal-unit" /\ Has(param.sectionId)
                   /\ param.sectionId # Str("temporal-unit")
                THEN E("section_id") ELSE <<>>)
            \o (IF param.type = "temporal-unit" /\ Has(param.sectionId)
                   /\ (\/ ~Has(param.temporal_units)
                       \/ ~IsList(param.temporal_units)
                       \/ param.temporal_units.l = <<>>)
                THEN E("temporal_units") ELSE <<>>)
            \o (IF param.isMultiSelect = Bool(TRUE)
                   /\ param.type \in {"string/contains", "string/does-not-contain",
                                      "string/starts-with", "string/ends-with"}
                THEN E("multi_select") ELSE <<>>)
            \o (IF param.required = Bool(TRUE)
                   /\ param.default \in {Absent, None, Str(""), List(<<>>)}
                THEN E("required_without_default") ELSE <<>>)
            \o LegacyErrors(ps, n + 1,
                    IF with_id THEN seen_ids \cup {param.id} ELSE seen_ids,
                    IF is_tab THEN seen_names \cup {param.name} ELSE seen_names)

\* The error list validate_parameters returns; is_valid is its emptiness.
validate_parameters(ps) ==
    IF \E n \in DOMAIN ps : LegacySchemaViolation(ps[n])
    THEN <<Error("schema", -1, <<>>)>>
    ELSE LegacyErrors(ps, 1, {}, {})

InitLegacy ==
    /\ tool = "validate_parameters"
    /\ parameters \in Batches(LegacySpecs)
    /\ pc = "validate"
    /\ result = "running"
    /\ arg = "list"
    /\ available = TRUE
    /\ query_given = FALSE
    /\ i = 1
    /\ errors = <<>>
    /\ processed_parameters = <<>>
    /\ template_tags = <<>>
    /\ existing_ids = {}
    /\ generated = <<>>
    /\ requests = <<>>
    /\ waiting = <<>>
    /\ data = <<>>
    /\ tab_id = None
    /\ page = 1
    /\ page_size = 20
    /\ dashcards = <<>>
    /\ card_parameters_by_card = <<>>
    /\ processed_dashcards = <<>>

ValidateLegacyParameters ==
    /\ tool = "validate_parameters"
    /\ pc = "validate"
    /\ pc' = "returned"
    /\ errors' = validate_parameters(parameters)
    /\ result' = IF errors' = <<>> THEN "valid" ELSE "invalid"
    /\ UNCHANGED <<linker, waiting, tab_call, tool, parameters, arg, available,
                   query_given, i, processed_parameters, template_tags,
                   existing_ids, generated, requests>>

SpecLegacy == InitLegacy /\ [][ValidateLegacyParameters]_vars

(***************************************************************************)
(* Properties                                                              *)
(***************************************************************************)
Succeeded == pc = "returned" /\ errors = <<>>

ReferenceRules == {"table_inaccessible", "field_validation_exception", "field_not_found"}

Rules(errs) == {errs[n].rule : n \in DOMAIN errs}

\* C1: in every successfully compiled query batch each compiled parameter has
\* exactly one binding tag, stored under the spec's name, and the tag's id is
\* the parameter's id.
C1_TagPerParameter ==
    (~IsDashboard /\ Succeeded) =>
        /\ Len(processed_parameters) = Len(parameters)
        /\ DOMAIN template_tags = {parameters[n].name : n \in DOMAIN parameters}
        /\ Cardinality(DOMAIN template_tags) = Len(processed_parameters)
        /\ \A n \in DOMAIN processed_parameters :
              /\ template_tags[parameters[n].name].name = parameters[n].name
              /\ template_tags[parameters[n].name].id = processed_parameters[n].id

C1_Witness ==
    /\ ~IsDashboard
    /\ Succeeded
    /\ Len(processed_parameters) = 2
    /\ Has(parameters[2].field)

\* C2: query compilation is staged and fails closed.  When stage (a) finds an
\* error the call returns exactly the stage-(a) errors, no request was sent,
\* and parameters and binding tags are empty; when stage (b) finds an error
\* the call never reaches stage (c): no id is generated, the errors are only
\* reference errors, and parameters and binding tags are empty.
C2_StagedFailClosed ==
    ~IsDashboard =>
        /\ (pc # "validate" /\ <<>> \notin validate_enhanced_parameters(parameters)) =>
              /\ pc = "returned"
              /\ errors \in validate_enhanced_parameters(parameters)
              /\ requests = <<>>
              /\ generated = <<>>
              /\ processed_parameters = <<>>
              /\ DOMAIN template_tags = {}
        /\ (Rules(errors) \cap ReferenceRules # {}) =>
              /\ pc \in {"references", "returned"}
              /\ Rules(errors) \subseteq ReferenceRules
              /\ generated = <<>>
              /\ processed_parameters = <<>>
              /\ DOMAIN template_tags = {}

C2_Witness ==
    /\ ~IsDashboard
    /\ pc = "returned"
    /\ Len(requests) = 2
    /\ Rules(errors) = {"field_not_found"}
    /\ Len(errors) = 1

IsWrite(request) == request.endpoint = "card" /\ request.method \in {"POST", "PUT"}

\* C3: create_card and update_card send no POST card / PUT card once parameter
\* compilation has returned an error, and return the error data.
C3_NoWriteAfterCompileError ==
    errors # <<>> =>
        /\ \A n \in DOMAIN requests : ~IsWrite(requests[n])
        /\ pc \notin {"execute", "write"}
        /\ pc = "done" => result = "invalid_parameters"

C3_Witness ==
    /\ tool = "update_card"
    /\ pc = "done"
    /\ result = "invalid_parameters"
    /\ Rules(errors) \subseteq ReferenceRules
    /\ requests # <<>>

OffendsStageA(n) ==
    IF IsDashboard
    THEN \/ DashboardSchemaViolation(parameters[n])
         \/ \E e \in Range(DashboardNameErrors(parameters, 1, {})
                              \o DashboardParameterErrors(parameters, 1)) :
               e.index = n - 1
    ELSE \/ CardSchemaViolation(parameters[n])
         \/ \E e \in Range(BusinessErrors(parameters)) : e.index = n - 1

\* C4: stage (a) reports an error for every spec of the batch that violates a
\* schema or business rule, not only for the first one found.
C4_EveryOffenderReported ==
    pc = "returned" =>
        \A n \in DOMAIN parameters :
            OffendsStageA(n) => \E e \in Range(errors) : e.index = n - 1

FieldIndexes == {n \in DOMAIN parameters : Has(parameters[n].field)}

\* position in the request log of the lookup made for the spec at position n
RequestOf(n) == Cardinality({m \in FieldIndexes : m <= n})

FieldMissing(param, resp) ==
    resp.k # "ok" \/ param.field.field_id \notin resp.fields

ErrorsAt(n) == SelectSeq(errors, LAMBDA e : e.index = n - 1)

\* C5: once a query batch has passed stage (a), every spec with a field_ref
\* is looked up, and the stage's errors are exactly one reference error, with
\* index and name, for each spec whose table could not be fetched or whose
\* field_id is not among the reported fields; any such error fails the call.
C5_OneReferenceErrorPerMissingField ==
    (~IsDashboard /\ pc \in {"process", "returned"}
        /\ <<>> \in validate_enhanced_parameters(parameters)) =>
        /\ Len(requests) = Cardinality(FieldIndexes)
        /\ \A n \in DOMAIN parameters :
              IF n \in FieldIndexes
                 /\ FieldMissing(parameters[n], requests[RequestOf(n)].resp)
              THEN /\ Len(ErrorsAt(n)) = 1
                   /\ ErrorsAt(n)[1].name = parameters[n].name
                   /\ ErrorsAt(n)[1].rule \in ReferenceRules
              ELSE ErrorsAt(n) = <<>>
        /\ errors # <<>> => pc = "returned" /\ processed_parameters = <<>>

C5_Witness ==
    /\ ~IsDashboard
    /\ pc = "returned"
    /\ Len(requests) = 2
    /\ Len(errors) = 2
    /\ errors[1].rule = "field_not_found"
    /\ errors[2].index = 1

\* C6: in a successfully compiled batch of either scope the slugs of the
\* compiled parameters are pairwise distinct.
C6_SlugsDistinct ==
    Succeeded =>
        \A m, n \in DOMAIN processed_parameters :
            m # n => processed_parameters[m].slug # processed_parameters[n].slug

\* C7: after a successful dashboard compilation the ids of the compiled
\* parameters are pairwise distinct.
C7_DashboardIdsDistinct ==
    (IsDashboard /\ Succeeded) =>
        \A m, n \in DOMAIN processed_parameters :
            m # n => processed_parameters[m].id # processed_parameters[n].id

\* C8: after a successful query compilation the ids of the compiled
\* parameters are pairwise distinct, whatever the generator returned.
C8_QueryIdsDistinct ==
    (~IsDashboard /\ Succeeded) =>
        \A m, n \in DOMAIN processed_parameters :
            m # n => processed_parameters[m].id # processed_parameters[n].id

\* C9: every parameter of a successfully compiled batch of either scope with
\* required = true has a default that is present and not null, not the empty
\* string and not the empty sequence.
C9_RequiredHasDefault ==
    Succeeded =>
        \A n \in DOMAIN processed_parameters :
            processed_parameters[n].required = Bool(TRUE) =>
                processed_parameters[n].default \notin {Absent, None, Str(""), List(<<>>)}

\* C10: a batch of either scope in which two specs share a name is rejected
\* in stage (a) with a duplicate-name error carrying the index of each later
\* occurrence and the name, and produces no parameter.
C10_DuplicateNameRejected ==
    pc # "validate" =>
        \A n \in DOMAIN parameters :
            (\E m \in 1..(n - 1) : parameters[m].name = parameters[n].name) =>
                /\ pc = "returned"
                /\ Error("duplicate_name", n - 1, parameters[n].name) \in Range(errors)
                /\ processed_parameters = <<>>
                /\ DOMAIN template_tags = {}

HasName(name) == \E n \in DOMAIN parameters : parameters[n].name = name

\* C11: a dashboard batch that holds a parameter named "tab" ends, once
\* validated, with a business-rule error about the reserved name, and no
\* request was made to the Metabase API.
C11_ReservedNameRejected ==
    (IsDashboard /\ pc # "validate" /\ HasName(<<"t", "a", "b">>))
        => /\ pc = "returned"
           /\ "reserved_name" \in Rules(errors)
           /\ requests = <<>>

BadTemporalUnits(param) ==
    /\ param.type = "temporal-unit"
    /\ \/ ~Has(param.temporal_units)
       \/ param.temporal_units.l = <<>>
       \/ \E u \in Range(param.temporal_units.l) : u \notin VALID_TEMPORAL_UNITS

\* C12: a dashboard batch that holds a temporal-unit parameter whose
\* temporal_units is missing, empty or names a unit outside the vocabulary
\* never makes a request and never produces a parameter, and once validated
\* it has returned with errors.
C12_TemporalUnitsRejected ==
    (IsDashboard /\ \E n \in DOMAIN parameters : BadTemporalUnits(parameters[n]))
        => /\ requests = <<>>
           /\ processed_parameters = <<>>
           /\ pc # "validate" => (pc = "returned" /\ errors # <<>>)

\* a batch rejected for a unit outside the vocabulary although another of its
\* parameters has a card values source to look up
C12_Witness ==
    /\ IsDashboard
    /\ pc = "returned"
    /\ "invalid_temporal_unit" \in Rules(errors)
    /\ \E n \in DOMAIN parameters : NeedsCardCheck(parameters[n])
    /\ requests = <<>>

\* the multiplicity of a parameter: isMultiSelect when given, otherwise
\* whether the type is one that supports multi-select
ResolvedMultiSelect(param) ==
    IF Has(param.isMultiSelect) THEN Truthy(param.isMultiSelect)
    ELSE param.type \in MULTI_SELECT_SUPPORTED

\* C13: in a dashboard batch that compiled, every parameter with a default
\* has a list default exactly when its resolved multiplicity is multi-select,
\* where an unset isMultiSelect resolves to true for the types that support
\* multi-select and to false for the others.
C13_DefaultMatchesResolvedMultiplicity ==
    (IsDashboard /\ Succeeded) =>
        \A n \in DOMAIN parameters :
            Has(parameters[n].default) =>
                (IsList(parameters[n].default) <=> ResolvedMultiSelect(parameters[n]))

CardIndexes ==
    {n \in DOMAIN parameters :
        /\ Has(parameters[n].values_source)
        /\ parameters[n].values_source.type = "card"}

\* position in the request log of the lookup made for the spec at position n
CardRequestOf(n) == Cardinality({m \in CardIndexes : m <= n})

CardReferenceRules ==
    {"card_inaccessible", "card_validation_exception", "card_not_materialized",
     "value_field_not_found", "label_field_not_found"}

\* the card was fetched, has result columns, and they hold the value field
\* and, when one is named, the label field
CardUsable(param, resp) ==
    /\ resp.k = "ok"
    /\ resp.result_metadata # {}
    /\ param.values_source.value_field.s \in resp.result_metadata
    /\ Has(param.values_source.label_field)
          => param.values_source.label_field.s \in resp.result_metadata

OrderStatusCompiled ==
    /\ ~IsDashboard
    /\ Succeeded
    /\ parameters = <<OrderStatus>>

\* target variable(order_status), a text tag, a static list
OrderStatusShape ==
    /\ processed_parameters[1].target =
          <<"variable", <<"template-tag", OrderStatus.name>> >>
    /\ template_tags[OrderStatus.name].type = "text"
    /\ processed_parameters[1].values_source_type = Str("static-list")

\* C14 as stated: the order_status parameter compiles to target
\* variable(order_status), a tag of type text, values_source_type
\* "static-list" and the values [["pending"], ["shipped"]].
C14_OrderStatusValuesWrapped ==
    OrderStatusCompiled =>
        /\ OrderStatusShape
        /\ processed_parameters[1].values_source_config.values =
              <<List(<<Str("pending")>>), List(<<Str("shipped")>>)>>

\* C14: the order_status parameter compiles to target variable(order_status),
\* a tag of type text, values_source_type "static-list" and the values
\* ["pending", "shipped"], the strings as they were given.
C14_OrderStatusValuesKept ==
    OrderStatusCompiled =>
        /\ OrderStatusShape
        /\ processed_parameters[1].values_source_config.values =
              <<Str("pending"), Str("shipped")>>

C14_Witness ==
    /\ OrderStatusCompiled
    /\ Len(processed_parameters) = 1
    /\ processed_parameters[1].values_query_type = "list"
    /\ Has(processed_parameters[1].values_source_config)

NumericStatic(param) ==
    /\ Has(param.values_source)
    /\ param.values_source.type = "static"
    /\ param.values_source.values # <<>>
    /\ \A v \in Range(param.values_source.values) : IsNumber(v)

ConnectedFieldFilter(param) ==
    /\ param.type \in FIELD_FILTER_TYPES
    /\ Has(param.field)
    /\ param.values_source = ConnectedSource

QueryTypeOfSource(values_source) ==
    IF ~Has(values_source) THEN "none"
    ELSE IF values_source.type = "card" THEN "search"
    ELSE "list"

\* none for no widget and for input, list for dropdown, search for search
QueryTypeOfWidget(ui_widget) ==
    IF ui_widget = Str("dropdown") THEN "list"
    ELSE IF ui_widget = Str("search") THEN "search"
    ELSE "none"

SourceCompiled(compiled) ==
    Has(compiled.values_source_type) \/ Has(compiled.values_source_config)

\* C17 as stated: in a compiled batch of either scope every parameter's
\* values_query_type is the one of its values source, and a declared values
\* source appears as values_source_type or values_source_config.
C17_QueryTypeFromValuesSource ==
    Succeeded =>
        \A n \in DOMAIN parameters :
            /\ processed_parameters[n].values_query_type =
                  QueryTypeOfSource(parameters[n].values_source)
            /\ Has(parameters[n].values_source)
                  => SourceCompiled(processed_parameters[n])

\* C17: in a compiled dashboard batch every parameter's values_query_type is
\* the one of its values source and a declared values source appears in the
\* output; in a compiled query batch the values_query_type is the one of the
\* ui_widget, and a values source appears in the output only if it was
\* declared and the widget is dropdown or search.
C17_QueryTypeFromSourceOrWidget ==
    Succeeded =>
        \A n \in DOMAIN parameters :
            IF IsDashboard
            THEN /\ processed_parameters[n].values_query_type =
                       QueryTypeOfSource(parameters[n].values_source)
                 /\ Has(parameters[n].values_source)
                       => SourceCompiled(processed_parameters[n])
            ELSE /\ processed_parameters[n].values_query_type =
                       QueryTypeOfWidget(parameters[n].ui_widget)
                 /\ SourceCompiled(processed_parameters[n]) =>
                       /\ Has(parameters[n].values_source)
                       /\ parameters[n].ui_widget \in {Str("dropdown"), Str("search")}

\* a static list behind a search widget
C17_Witness ==
    /\ ~IsDashboard
    /\ Succeeded
    /\ \E n \in DOMAIN parameters :
          /\ parameters[n].values_source = StaticSource(<<Str("p"), Str("s")>>)
          /\ parameters[n].ui_widget = Str("search")
          /\ processed_parameters[n].values_query_type = "search"
          /\ processed_parameters[n].values_source_type = Str("static-list")

\* C19: a query batch compiles only if, for each of its parameters with a
\* card values source, the card was fetched and found to have result columns
\* holding the value field and, when one is named, the label field.
C19_QueryCardSourceValidated ==
    (~IsDashboard /\ Succeeded) =>
        \A n \in CardIndexes :
            \E m \in DOMAIN requests :
                /\ requests[m].endpoint = "card"
                /\ requests[m].id = parameters[n].values_source.card_id.n
                /\ CardUsable(parameters[n], requests[m].resp)

\* the parameters known for the card of the dashcard at position d
FetchedCardParameters(d) ==
    IF dashcards[d].card_id \in DOMAIN card_parameters_by_card
    THEN card_parameters_by_card[dashcards[d].card_id] ELSE <<>>

MatchesCardParameter(mapping, card_param) ==
    \/ card_param.name = mapping.card_parameter_name
    \/ card_param.slug = mapping.card_parameter_name

\* the dashboard parameter name is one of the compiled set and the card
\* parameter name is the name or the slug of a parameter of the card
Resolvable(mapping, d) ==
    /\ \E n \in DOMAIN processed_parameters :
          processed_parameters[n].name = mapping.dashboard_parameter_name
    /\ \E n \in DOMAIN FetchedCardParameters(d) :
          MatchesCardParameter(mapping, FetchedCardParameters(d)[n])

ResolvablePairs(d) ==
    SelectSeq(dashcards[d].parameter_mappings.l, LAMBDA m : Resolvable(m, d))

C21_OneFetchPerCard ==
    tool = "validate_parameter_mappings" =>
        \A m, n \in DOMAIN requests :
            requests[m].id = requests[n].id => m = n

\* the names of the pair that name no dashboard parameter, no parameter of
\* the dashcard's card
UnresolvedNames(mapping, d) ==
    (IF \E n \in DOMAIN processed_parameters :
            processed_parameters[n].name = mapping.dashboard_parameter_name
     THEN {} ELSE {mapping.dashboard_parameter_name})
    \cup (IF \E n \in DOMAIN FetchedCardParameters(d) :
                MatchesCardParameter(mapping, FetchedCardParameters(d)[n])
          THEN {} ELSE {mapping.card_parameter_name})

\* C22: when validate_parameter_mappings or process_parameter_mappings has
\* returned, for every dashcard i and pair j of which a name cannot be
\* resolved the errors hold an entry with i, j and an unresolved name of the
\* pair.
C22_EveryUnresolvedPairReported ==
    (tool \in {"validate_parameter_mappings", "process_parameter_mappings"}
        /\ pc = "returned") =>
        \A d \in DOMAIN dashcards :
            Truthy(dashcards[d].parameter_mappings) =>
                \A j \in DOMAIN dashcards[d].parameter_mappings.l :
                    LET unresolved ==
                            UnresolvedNames(dashcards[d].parameter_mappings.l[j], d)
                    IN unresolved # {} =>
                           \E n \in DOMAIN errors :
                               /\ errors[n].index = d - 1
                               /\ errors[n].mapping = j - 1
                               /\ errors[n].name \in unresolved

\* "field" is missing for a field-filter type or given for a simple type
FieldPresenceMismatch(param) ==
    \/ param.type \in FIELD_FILTER_TYPES /\ ~Has(param.field)
    \/ param.type \in DOMAIN SIMPLE_PARAMETER_TYPES /\ Has(param.field)

BusinessRules ==
    {"duplicate_name", "search_widget", "dropdown_widget", "required_without_default"}

\* C23: a query batch with a spec whose "field" disagrees with its type has,
\* once validated, returned with a business-rule error for that spec and
\* compiled nothing.
C23_FieldPresenceRejected ==
    (~IsDashboard /\ pc # "validate") =>
        \A n \in DOMAIN parameters :
            FieldPresenceMismatch(parameters[n]) =>
                /\ pc = "returned"
                /\ processed_parameters = <<>>
                /\ \E e \in Range(errors) :
                      e.index = n - 1 /\ e.rule \in BusinessRules

IsQueryCall(call) == call.tool = "process_enhanced_parameters"

LooksUp(call, n) ==
    IF IsQueryCall(call) THEN Has(call.parameters[n].field)
    ELSE NeedsCardCheck(call.parameters[n])

\* The errors the reference stage of a call draws from the answers to its own
\* requests: spec n onwards against request k onwards.
RECURSIVE OwnReferenceErrors(_, _, _)
OwnReferenceErrors(call, n, k) ==
    IF n > Len(call.parameters) THEN <<>>
    ELSE IF ~LooksUp(call, n) THEN OwnReferenceErrors(call, n + 1, k)
    ELSE IF k > Len(call.requests) THEN <<Error("no_request", n - 1, <<>>)>>
    ELSE (IF IsQueryCall(call)
          THEN FieldReferenceErrors(call.parameters[n], n, call.requests[k].resp)
          ELSE CardReferenceErrors(call.parameters[n], n, call.requests[k].resp))
         \o OwnReferenceErrors(call, n + 1, k + 1)

\* A returned call holds what its own batch, the answers to its own requests
\* and its own random ids give, and nothing else.
ReturnsAsAlone(call) ==
    LET ps == call.parameters
        stage_a == IF IsQueryCall(call) THEN validate_enhanced_parameters(ps)
                   ELSE validate_enhanced_dashboard_parameters(ps)
        lookups == Cardinality({n \in DOMAIN ps : LooksUp(call, n)})
        compiled == call.errors = <<>>
    IN
    IF <<>> \notin stage_a
    THEN /\ call.errors \in stage_a
         /\ call.requests = <<>>
         /\ call.processed_parameters = <<>>
         /\ call.existing_ids = {}
    ELSE /\ Len(call.requests) = lookups
         /\ call.errors = OwnReferenceErrors(call, 1, 1)
         /\ Len(call.generated) = IF compiled THEN Len(ps) ELSE 0
         /\ call.existing_ids =
                IF IsQueryCall(call) THEN {} ELSE Range(call.generated)
         /\ call.processed_parameters =
                IF ~compiled THEN <<>>
                ELSE [n \in DOMAIN ps |->
                        IF IsQueryCall(call)
                        THEN process_single_parameter(ps[n], call.generated[n])[1]
                        ELSE process_single_dashboard_parameter(ps[n], call.generated[n])]
         /\ DOMAIN call.template_tags =
                IF compiled /\ IsQueryCall(call) THEN {ps[n].name : n \in DOMAIN ps}
                ELSE {}
         /\ \A n \in DOMAIN ps :
                (compiled /\ IsQueryCall(call)) =>
                    call.template_tags[ps[n].name] =
                        process_single_parameter(ps[n], call.generated[n])[2]

\* C24: of two compilation calls interleaved at their awaits, each returns
\* what it returns alone: errors, ids, compiled parameters and tags come from
\* its own batch, its own lookups and its own ids, whatever the other call did.
C24_ConcurrentCallsIndependent ==
    waiting # <<>> =>
        /\ pc = "returned" => ReturnsAsAlone(Locals)
        /\ waiting.pc = "returned" => ReturnsAsAlone(waiting)

\* Both calls compiled a batch of two, the dashboard call having been
\* suspended at its lookup while the query call ran to its end.
C24_Witness ==
    /\ waiting # <<>>
    /\ Succeeded
    /\ IsDashboard
    /\ Len(processed_parameters) = 2
    /\ Len(requests) = 1
    /\ waiting.pc = "returned"
    /\ IsQueryCall(waiting)
    /\ Len(waiting.processed_parameters) = 2
    /\ Len(waiting.requests) = 1
    /\ waiting.existing_ids # existing_ids
    /\ waiting.generated[1] = generated[1]

DimensionTarget(name) == <<"dimension", <<"template-tag", name>> >>
VariableTarget(name) == <<"variable", <<"template-tag", name>> >>

DimensionTag(tag) == tag.type = "dimension" /\ Has(tag.dimension)

TabResolved ==
    /\ requests # <<>>
    /\ requests[Len(requests)].resp.k = "ok"
    /\ IF data.tabs # <<>> THEN tab_id # None /\ tab_id.n \in Range(data.tabs)
       ELSE tab_id = None

InTab(card) == data.tabs = <<>> \/ card.dashboard_tab_id = tab_id

TabCardIds == {data.dashcards[n].id : n \in {m \in DOMAIN data.dashcards : InTab(data.dashcards[m])}}

Ceiling(n, size) == CHOOSE t \in 0..n : t * size >= n /\ (t - 1) * size < n

ExpectedTotalPages == IF TabCardIds = {} THEN 1 ELSE Ceiling(Cardinality(TabCardIds), page_size)

Minimum(a, b) == IF a < b THEN a ELSE b

\* The cards of pages p, p + 1, ... up to the last page, one after the other.
RECURSIVE PagesFrom(_)
PagesFrom(p) ==
    IF p > ExpectedTotalPages THEN <<>>
    ELSE TabResponse(SortByPosition(FilteredDashcards(data, tab_id)), p, page_size).dashcards
            \o PagesFrom(p + 1)

C27_UpdateWritesTagsWithParameters ==
    tool = "update_card" =>
        \A n \in DOMAIN requests :
            (IsWrite(requests[n]) /\ Has(requests[n].body.parameters)) =>
                LET written == requests[n].body.parameters.l
                    tags == requests[n].body.template_tags
                IN \A k \in DOMAIN written :
                      /\ parameters[k].name \in DOMAIN tags
                      /\ tags[parameters[k].name].id = written[k].id

\* What process_parameter_mappings makes of a mapping from the dashboard
\* parameter ab to the parameter of card 1 called name, the card holding the
\* compiled parameters.
LinkedByName(name) ==
    ResolveMapping(Mapping(<<"a", "b">>, name), 0, 0, 1,
                   LinkDashboardParameters, processed_parameters)

\* C28: every spec of a compiled query batch can be mapped by its name: the
\* linker resolves card_parameter_name = name against the compiled
\* parameters, with or without display_name.
C28_CompiledNameLinks ==
    (~IsDashboard /\ Succeeded) =>
        \A n \in DOMAIN parameters : LinkedByName(parameters[n].name).k = "ok"

\* C29: in a compiled query batch a parameter and its binding tag agree on
\* default and on required: each is present in both with one value, or absent
\* in both.
C29_DefaultRequiredAgree ==
    (~IsDashboard /\ Succeeded) =>
        \A n \in DOMAIN processed_parameters :
            LET tag == template_tags[parameters[n].name] IN
            /\ tag.default = processed_parameters[n].default
            /\ tag.required = processed_parameters[n].required

\* C30: validate_parameters reports an error for every parameter whose name
\* repeats the name of an earlier one, and never reports such a batch valid.
C30_LegacyDuplicateNamesReported ==
    (tool = "validate_parameters" /\ pc = "returned") =>
        \A n \in DOMAIN parameters :
            (\E m \in 1..(n - 1) : parameters[m].name = parameters[n].name) =>
                /\ result = "invalid"
                /\ \E e \in Range(errors) : e.index = n - 1
====
